---- MODULE Spec2Model ----
(***************************************************************************)
(* Model of minesweeper.py: the Minesweeper board (mine placement and      *)
(* neighbour counting), the Sentence class and the MinesweeperAI agent     *)
(* (add_knowledge with its closure loop, make_safe_move).                  *)
(*                                                                         *)
(* A cell is a pair <<row, col>>.  A sentence is a record                  *)
(* [cells |-> set of cells, count |-> integer].  A value returned by a     *)
(* call is None (the empty tuple), a cell (a pair) or a set of cells       *)
(* wrapped as a one-element tuple <<S>>.                                   *)
(***************************************************************************)
EXTENDS Integers, FiniteSets, Sequences, TLC

\* ------------------------------------------------------------------ bounds
MaxHeight == 3        \* boards of 1 .. MaxHeight rows
MaxWidth == 4         \* and 1 .. MaxWidth columns
MaxCells == 8         \* with at most MaxCells cells
MaxMines == 2         \* and at most MaxMines mines
MaxKnowledge == 2     \* a repeated or out-of-contract call needs a shorter knowledge list
MaxBadCount == 2      \* largest count of an out-of-contract call
MaxBadMoves == 2      \* an out-of-contract call comes after fewer than MaxBadMoves moves
MaxSentCount == 4     \* largest count of a lone sentence
MaxTallMines == 1     \* a board of AssertIndex + 1 rows has at most MaxTallMines mines
MaxSentCells == 4     \* a lone sentence holds cells of the first MaxSentCells columns

\* The row / column index the assertions of add_knowledge reject.
AssertIndex == 8

VARIABLES
    height,      \* MinesweeperAI.height (= Minesweeper.height)
    width,       \* MinesweeperAI.width  (= Minesweeper.width)
    board,       \* Minesweeper.mines: the cells of the board that hold a mine
    moves_made,  \* MinesweeperAI.moves_made
    mines,       \* MinesweeperAI.mines
    safes,       \* MinesweeperAI.safes
    knowledge,   \* MinesweeperAI.knowledge: sequence of sentences
    pc,          \* "idle", "closure" (inside the while loop of add_knowledge), "error"
    again,       \* the add_knowledge call in progress was for a cell already in moves_made
    broken,      \* add_knowledge has been called outside its contract
    ret,         \* value returned by the last call (None for add_knowledge)
    sent         \* a Sentence object on its own (Sentence-level operations)

vars == <<height, width, board, moves_made, mines, safes, knowledge, pc, again, broken, ret, sent>>

None == <<>>
SetValue(S) == <<S>>

\* ------------------------------------------------------------ Minesweeper
BoardCells(h, w) == (0 .. h - 1) \X (0 .. w - 1)

\* range(cell[0]-1, cell[0]+2) x range(cell[1]-1, cell[1]+2) without the cell
Around(cell) ==
    { <<i, j>> : i \in (cell[1] - 1) .. (cell[1] + 1),
                 j \in (cell[2] - 1) .. (cell[2] + 1) } \ {cell}

nearby_mines(cell) ==
    Cardinality({ c \in Around(cell) :
                    /\ 0 <= c[1] /\ c[1] < height
                    /\ 0 <= c[2] /\ c[2] < width
                    /\ c \in board })

\* --------------------------------------------------------------- Sentence
Sentence(cells, count) == [cells |-> cells, count |-> count]

known_mines(s) ==
    IF Cardinality(s.cells) = s.count THEN SetValue(s.cells) ELSE None

\* known_safes that never concludes anything.
known_safes_never(s) == None

known_safes(s) ==
    IF s.count = 0 THEN SetValue(s.cells) ELSE None

\* Sentence.mark_mine without the membership test.
SentenceMarkMineAlways(s, cell) ==
    Sentence(s.cells \ {cell}, s.count - 1)

SentenceMarkMine(s, cell) ==
    IF cell \in s.cells
    THEN Sentence(s.cells \ {cell}, s.count - 1)
    ELSE s

SentenceMarkSafe(s, cell) ==
    IF cell \in s.cells
    THEN Sentence(s.cells \ {cell}, s.count)
    ELSE s

\* ---------------------------------------------------------- MinesweeperAI
\* The agent's inference state while add_knowledge runs: the two cell sets,
\* the knowledge list, the `changed` flag of the closure loop and whether an
\* assertion has failed.
Agent(m, s, kb, ch, er) ==
    [mines |-> m, safes |-> s, knowledge |-> kb, changed |-> ch, err |-> er]

\* mark_safe that records the cell but leaves the sentences alone.
mark_safe_set_only(a, cell) ==
    [a EXCEPT !.safes = @ \cup {cell}]

\* mark_mine that takes the mine out of the count of every sentence.
mark_mine_every_count(a, cell) ==
    [a EXCEPT !.mines = @ \cup {cell},
              !.knowledge = [k \in DOMAIN @ |-> SentenceMarkMineAlways(@[k], cell)]]

mark_mine(a, cell) ==
    [a EXCEPT !.mines = @ \cup {cell},
              !.knowledge = [k \in DOMAIN @ |-> SentenceMarkMine(@[k], cell)]]

mark_safe(a, cell) ==
    [a EXCEPT !.safes = @ \cup {cell},
              !.knowledge = [k \in DOMAIN @ |-> SentenceMarkSafe(@[k], cell)]]

\* for mine in new_mines.copy(): if mine not in self.mines: mark_mine(mine); changed = True
RECURSIVE MarkNewMines(_, _)
MarkNewMines(a, cells) ==
    IF cells = {} THEN a
    ELSE LET mine == CHOOSE c \in cells : TRUE
         IN  MarkNewMines(
                 IF mine \notin a.mines
                 THEN [mark_mine(a, mine) EXCEPT !.changed = TRUE]
                 ELSE a,
                 cells \ {mine})

\* for safe in new_safes.copy(): if safe not in self.safes: mark_safe(safe); changed = True
RECURSIVE MarkNewSafes(_, _)
MarkNewSafes(a, cells) ==
    IF cells = {} THEN a
    ELSE LET safe == CHOOSE c \in cells : TRUE
         IN  MarkNewSafes(
                 IF safe \notin a.safes
                 THEN [mark_safe(a, safe) EXCEPT !.changed = TRUE]
                 ELSE a,
                 cells \ {safe})

\* The bounds test of the neighbour enumeration (both indices against height).
InBoundsTest(i, j) == 0 <= i /\ i < height /\ 0 <= j /\ j < height

\* The neighbours that pass the safes / mines / bounds tests of the enumeration.
neighboring_cells(a, cell) ==
    { c \in Around(cell) :
        /\ c \notin a.safes
        /\ c \notin a.mines
        /\ InBoundsTest(c[1], c[2]) }

\* `count` after the enumeration: one less per neighbour found in self.mines
\* (a neighbour found in self.safes first is skipped before that test).
remaining_count(a, cell, count) ==
    count - Cardinality({ c \in Around(cell) : c \notin a.safes /\ c \in a.mines })

\* assert _i != 8 / assert _j != 8
BoundAssertFails(a, cell) ==
    \E c \in neighboring_cells(a, cell) : c[1] = AssertIndex \/ c[2] = AssertIndex

\* The knowledge list after step 3 (create the new sentence, append it if non-empty).
WithNewSentence(a, cell, count) ==
    IF neighboring_cells(a, cell) # {}
    THEN Append(a.knowledge,
                Sentence(neighboring_cells(a, cell), remaining_count(a, cell, count)))
    ELSE a.knowledge

\* if new_mines is not None: assert new_mines != set(); mark every new mine
MarkKnownMines(a, new_mines) ==
    IF new_mines = None THEN a
    ELSE IF new_mines[1] = {} THEN [a EXCEPT !.err = TRUE]
    ELSE MarkNewMines(a, new_mines[1])

\* if new_safes is not None: assert new_safes != set(); mark every new safe.
\* new_safes is the k-th sentence's own set object, so its content is read
\* here, after the mines of that sentence have been marked.
MarkKnownSafes(a, k, new_safes) ==
    IF a.err \/ new_safes = None THEN a
    ELSE IF a.knowledge[k].cells = {} THEN [a EXCEPT !.err = TRUE]
    ELSE MarkNewSafes(a, a.knowledge[k].cells)

\* First loop of a sweep: known mines and known safes of every sentence.
RECURSIVE KnownLoop(_, _)
KnownLoop(k, a) ==
    IF a.err \/ k > Len(a.knowledge) THEN a
    ELSE IF a.knowledge[k].cells = {} THEN KnownLoop(k + 1, a)
    ELSE KnownLoop(k + 1,
             MarkKnownSafes(MarkKnownMines(a, known_mines(a.knowledge[k])),
                            k, known_safes(a.knowledge[k])))

InKnowledge(s, kb) == \E k \in DOMAIN kb : kb[k] = s

\* A subset loop that infers nothing.
SubsetLoopSkipped(i, j, a) == a

\* Second loop of a sweep: subset resolution over all ordered pairs; both
\* list iterations see the sentences appended during the loop.
RECURSIVE SubsetLoop(_, _, _)
SubsetLoop(i, j, a) ==
    IF a.err \/ i > Len(a.knowledge) THEN a
    ELSE IF j > Len(a.knowledge) THEN SubsetLoop(i + 1, 1, a)
    ELSE LET sentence_1 == a.knowledge[i]
             sentence_2 == a.knowledge[j]
             new_sentence == Sentence(sentence_2.cells \ sentence_1.cells,
                                      sentence_2.count - sentence_1.count)
         IN  IF sentence_1 = sentence_2 THEN SubsetLoop(i, j + 1, a)
             ELSE IF sentence_1.cells = {} \/ sentence_2.cells = {}
                  THEN SubsetLoop(i, j + 1, a)
             ELSE IF ~(sentence_1.cells \subseteq sentence_2.cells)
                  THEN SubsetLoop(i, j + 1, a)
             ELSE IF InKnowledge(new_sentence, a.knowledge)
                  THEN SubsetLoop(i, j + 1, a)
             ELSE IF new_sentence.cells = {}
                  THEN [a EXCEPT !.err = TRUE]
             ELSE SubsetLoop(i, j + 1,
                      [a EXCEPT !.knowledge = Append(@, new_sentence),
                                !.changed = TRUE])

\* self.knowledge[:] = [sentence for sentence in self.knowledge if sentence != empty]
RemoveEmpty(kb) == SelectSeq(kb, LAMBDA s : s # Sentence({}, 0))

\* One execution of the body of `while changed`.
SweepResult(a) ==
    LET a1 == KnownLoop(1, [a EXCEPT !.changed = FALSE])
        a2 == IF a1.err THEN a1 ELSE SubsetLoop(1, 1, a1)
    IN  IF a2.err THEN a2 ELSE [a2 EXCEPT !.knowledge = RemoveEmpty(@)]

\* make_safe_move without `- self.moves_made`.
make_safe_move_any_safe ==
    IF safes # {} THEN safes ELSE {None}

\* The values make_safe_move can return.
make_safe_move ==
    IF safes \ moves_made # {} THEN safes \ moves_made ELSE {None}

\* make_random_move without `- self.mines`.
make_random_move_any_unmoved ==
    IF BoardCells(height, width) \ moves_made # {}
    THEN BoardCells(height, width) \ moves_made
    ELSE {None}

\* The values make_random_move can return.
make_random_move ==
    IF (BoardCells(height, width) \ mines) \ moves_made = {}
    THEN {None}
    ELSE (BoardCells(height, width) \ mines) \ moves_made

\* ---------------------------------------------------------------- actions
NoSentence == Sentence({}, 0)

\* A game: a board of some height and width with some mines placed, and a
\* fresh agent for it.
Init ==
    /\ height \in 1 .. MaxHeight
    /\ width \in 1 .. MaxWidth
    /\ height * width <= MaxCells
    /\ board \in { b \in SUBSET BoardCells(height, width) : Cardinality(b) <= MaxMines }
    /\ moves_made = {}
    /\ mines = {}
    /\ safes = {}
    /\ knowledge = <<>>
    /\ pc = "idle"
    /\ again = FALSE
    /\ broken = FALSE
    /\ ret = None
    /\ sent = NoSentence

\* add_knowledge(cell, count) up to the start of the closure loop: steps 1-3.
\* (\E a \in {e} binds a to the value of e, evaluated once.)
AddKnowledgeBegin(cell, count) ==
    /\ pc = "idle"
    /\ \E a \in {mark_safe(Agent(mines, safes, knowledge, TRUE, FALSE), cell)} :
        /\ moves_made' = moves_made \cup {cell}
        /\ safes' = a.safes
        /\ mines' = a.mines
        /\ IF BoundAssertFails(a, cell)
           THEN /\ knowledge' = a.knowledge
                /\ pc' = "error"
           ELSE /\ knowledge' = WithNewSentence(a, cell, count)
                /\ pc' = "closure"
    /\ again' = (cell \in moves_made)
    /\ ret' = None
    /\ UNCHANGED <<height, width, board, sent>>

\* The board collaborator reveals a cell that holds no mine, not revealed
\* before, and reports its true number of neighbouring mines.
AddKnowledge ==
    \E cell \in BoardCells(height, width) \ board :
        /\ cell \notin moves_made
        /\ ~broken
        /\ AddKnowledgeBegin(cell, nearby_mines(cell))
        /\ UNCHANGED broken

\* One iteration of `while changed`; the call returns after an iteration that
\* changed nothing, and stops where an assertion fails.
Sweep ==
    /\ pc = "closure"
    /\ \E a \in {SweepResult(Agent(mines, safes, knowledge, TRUE, FALSE))} :
        /\ mines' = a.mines
        /\ safes' = a.safes
        /\ knowledge' = a.knowledge
        /\ pc' = IF a.err THEN "error" ELSE IF a.changed THEN "closure" ELSE "idle"
        /\ again' = IF ~a.err /\ a.changed THEN again ELSE FALSE
    /\ UNCHANGED <<height, width, board, moves_made, broken, ret, sent>>

MakeSafeMove ==
    /\ pc = "idle"
    /\ ret' \in make_safe_move
    /\ UNCHANGED <<height, width, board, moves_made, mines, safes, knowledge, pc, again, broken, sent>>

MakeRandomMove ==
    /\ pc = "idle"
    /\ ret' \in make_random_move
    /\ UNCHANGED <<height, width, board, moves_made, mines, safes, knowledge, pc, again, broken, sent>>

Next == AddKnowledge \/ Sweep \/ MakeSafeMove \/ MakeRandomMove

Spec == Init /\ [][Next]_vars

\* The same cell is reported a second time, with the same (true) count.
AddKnowledgeAgain ==
    \E cell \in moves_made :
        /\ Len(knowledge) < MaxKnowledge
        /\ AddKnowledgeBegin(cell, nearby_mines(cell))
        /\ UNCHANGED broken

NextAgain == Next \/ AddKnowledgeAgain

SpecAgain == Init /\ [][NextAgain]_vars

\* Calls outside the contract: a negative count, a count above the number of
\* neighbours on the board, or a cell off the board.
InBoardNeighbours(cell) == Around(cell) \cap BoardCells(height, width)

OutOfContract(cell, count) ==
    \/ count < 0
    \/ count > Cardinality(InBoardNeighbours(cell))
    \/ cell \notin BoardCells(height, width)

AddKnowledgeOutOfContract ==
    \E cell \in (-1 .. height) \X (-1 .. width), count \in -1 .. MaxBadCount :
        /\ OutOfContract(cell, count)
        /\ Len(knowledge) < MaxKnowledge
        /\ Cardinality(moves_made) < MaxBadMoves
        /\ ~broken
        /\ AddKnowledgeBegin(cell, count)
        /\ broken' = TRUE

NextOutOfContract == Next \/ AddKnowledgeOutOfContract

SpecOutOfContract == Init /\ [][NextOutOfContract]_vars

\* ------------------------------------------------ a Sentence on its own
SentCells == {0} \X (0 .. MaxSentCells - 1)

InitSentence ==
    /\ height = 1
    /\ width = MaxSentCells
    /\ board = {}
    /\ moves_made = {}
    /\ mines = {}
    /\ safes = {}
    /\ knowledge = <<>>
    /\ pc = "idle"
    /\ again = FALSE
    /\ broken = FALSE
    /\ ret = None
    /\ sent \in { Sentence(cells, count) : cells \in SUBSET SentCells, count \in -1 .. MaxSentCount }

KnownMines ==
    /\ ret' = known_mines(sent)
    /\ UNCHANGED <<height, width, board, moves_made, mines, safes, knowledge, pc, again, broken, sent>>

KnownSafes ==
    /\ ret' = known_safes(sent)
    /\ UNCHANGED <<height, width, board, moves_made, mines, safes, knowledge, pc, again, broken, sent>>

\* sent.mark_mine(cell)
SentMarkMine(cell) ==
    /\ sent' = SentenceMarkMine(sent, cell)
    /\ ret' = None
    /\ UNCHANGED <<height, width, board, moves_made, mines, safes, knowledge, pc, again, broken>>

\* sent.mark_safe(cell)
SentMarkSafe(cell) ==
    /\ sent' = SentenceMarkSafe(sent, cell)
    /\ ret' = None
    /\ UNCHANGED <<height, width, board, moves_made, mines, safes, knowledge, pc, again, broken>>

NextSentence ==
    \/ KnownMines
    \/ KnownSafes
    \/ \E cell \in SentCells : SentMarkMine(cell)
    \/ \E cell \in SentCells : SentMarkSafe(cell)

SpecSentence == InitSentence /\ [][NextSentence]_vars

\* A game on the narrowest board that has a row of index AssertIndex.
InitTall ==
    /\ height = AssertIndex + 1
    /\ width = 1
    /\ board \in { b \in SUBSET BoardCells(height, width) : Cardinality(b) <= MaxTallMines }
    /\ moves_made = {}
    /\ mines = {}
    /\ safes = {}
    /\ knowledge = <<>>
    /\ pc = "idle"
    /\ again = FALSE
    /\ broken = FALSE
    /\ ret = None
    /\ sent = NoSentence

SpecTall == InitTall /\ [][Next]_vars

\* ----------------------------------------------------------------- claims
IsCell(v) == v # None /\ Len(v) = 2

\* C1: every cell in `mines` is a mine of the board, no cell in `safes` is a
\* mine of the board, and no cell make_safe_move can return is a mine.
C1_Soundness ==
    /\ mines \subseteq board
    /\ safes \cap board = {}
    /\ pc = "idle" => \A m \in make_safe_move : IsCell(m) => m \notin board

\* C2: `mines` and `safes` are disjoint in every reachable state.
C2_Disjoint == mines \cap safes = {}

\* C3: the sentence add_knowledge(cell, count) builds before the closure loop
\* has as cells the neighbours of `cell` on the board (0 <= row < height,
\* 0 <= col < width) in neither `safes` nor `mines`, and as count `count` less
\* the neighbours in `mines`; it is appended iff that cell set is non-empty.
C3_Undetermined(cell) ==
    { c \in Around(cell) :
        /\ 0 <= c[1] /\ c[1] < height
        /\ 0 <= c[2] /\ c[2] < width
        /\ c \notin safes'
        /\ c \notin mines' }

C3_Shrunk(cell) == [k \in DOMAIN knowledge |-> SentenceMarkSafe(knowledge[k], cell)]

C3_NewSentence ==
    [][ pc = "idle" /\ pc' = "closure" =>
          \A cell \in moves_made' \ moves_made :
              knowledge' =
                  IF C3_Undetermined(cell) # {}
                  THEN Append(C3_Shrunk(cell),
                              Sentence(C3_Undetermined(cell),
                                       nearby_mines(cell)
                                         - Cardinality(Around(cell) \cap mines)))
                  ELSE C3_Shrunk(cell) ]_vars

\* C4: a second add_knowledge call with the same cell and count leaves `mines`
\* and `safes` unchanged and returns with no two equal sentences in `knowledge`.
NoEqualSentences(kb) ==
    \A i, j \in DOMAIN kb : i # j => kb[i] # kb[j]

C4_Idempotent ==
    [][ (again \/ again') =>
          /\ mines' = mines
          /\ safes' = safes
          /\ (again /\ pc' = "idle" => NoEqualSentences(knowledge')) ]_vars

\* C5: every in-contract call runs its closure loop to the end and returns:
\* in every reachable state add_knowledge has returned or its loop is about
\* to run another sweep (it never stops short of returning).
C5_Returns == pc = "idle" \/ pc = "closure"

\* C6: every sentence in `knowledge` has 0 <= count <= |cells|.
C6_CountInRange ==
    \A k \in DOMAIN knowledge :
        /\ 0 <= knowledge[k].count
        /\ knowledge[k].count <= Cardinality(knowledge[k].cells)

\* C7: when add_knowledge has returned, no sentence in `knowledge` has an
\* empty cell set.
C7_NoEmptySentence ==
    pc = "idle" => \A k \in DOMAIN knowledge : knowledge[k].cells # {}

\* C8: make_safe_move returns a cell of safes - moves_made when that set is
\* non-empty, None exactly when it is empty, and changes no agent state.
C8_SafeMove ==
    [][ MakeSafeMove =>
          /\ safes \ moves_made # {} => ret' \in safes \ moves_made
          /\ ret' = None <=> safes \ moves_made = {}
          /\ UNCHANGED <<moves_made, safes, mines, knowledge>> ]_vars

\* make_safe_move has returned a safe cell that is not a move made.
C8_Witness ==
    /\ pc = "idle"
    /\ IsCell(ret)
    /\ ret \in safes \ moves_made
    /\ moves_made # {}

\* C9: known_mines returns `cells` when |cells| = count > 0, known_safes returns
\* `cells` when count = 0 and `cells` is non-empty, and otherwise both return None.
C9_Known ==
    [][ /\ KnownMines =>
             ret' = IF Cardinality(sent.cells) = sent.count /\ sent.count > 0
                    THEN SetValue(sent.cells) ELSE None
        /\ KnownSafes =>
             ret' = IF sent.count = 0 /\ sent.cells # {}
                    THEN SetValue(sent.cells) ELSE None ]_vars

\* C10: an out-of-contract add_knowledge call ends in the error state and
\* changes none of `knowledge`, `safes`, `mines`.
C10_FailFast ==
    [][ ~broken /\ broken' =>
          /\ pc' = "error"
          /\ knowledge' = knowledge
          /\ safes' = safes
          /\ mines' = mines ]_vars

\* C11: make_random_move returns a cell of (all board cells) - mines -
\* moves_made when that set is non-empty, None exactly when it is empty, and
\* changes no agent state.
C11_Available == (BoardCells(height, width) \ mines) \ moves_made

C11_RandomMove ==
    [][ MakeRandomMove =>
          /\ C11_Available # {} => ret' \in C11_Available
          /\ ret' = None <=> C11_Available = {}
          /\ UNCHANGED <<moves_made, safes, mines, knowledge>> ]_vars

\* make_random_move has returned a cell not known safe while a mine is known.
C11_Witness ==
    /\ pc = "idle"
    /\ IsCell(ret)
    /\ ret \in C11_Available
    /\ ret \notin safes
    /\ mines # {}

\* C12: every cell held in safes, in mines or in a sentence is a cell of the
\* board (0 <= row < height, 0 <= column < width), so make_safe_move never
\* returns a cell outside the board.
C12_OnBoard ==
    /\ safes \subseteq BoardCells(height, width)
    /\ mines \subseteq BoardCells(height, width)
    /\ \A k \in 1 .. Len(knowledge) : knowledge[k].cells \subseteq BoardCells(height, width)
    /\ IsCell(ret) => ret \in BoardCells(height, width)

\* C13: a determined cell never appears in a constraint: after the agent's
\* mark_mine / mark_safe and whenever add_knowledge returns, no sentence of the
\* knowledge holds a cell that is in safes or in mines.
C13_Determined ==
    \A k \in 1 .. Len(knowledge) : knowledge[k].cells \cap (safes \cup mines) = {}

\* add_knowledge has returned with a mine and a safe cell inferred and a
\* sentence about undetermined cells still held.
C13_Witness ==
    /\ pc = "idle"
    /\ mines # {}
    /\ safes \ moves_made # {}
    /\ \E k \in 1 .. Len(knowledge) : knowledge[k].cells # {}

\* C14: when add_knowledge returns, the knowledge holds no sentence with
\* non-empty cells whose count is 0 or equals the number of its cells: every
\* such sentence has been turned into marked cells.
C14_NoTrivialSentence ==
    pc = "idle" =>
        \A k \in 1 .. Len(knowledge) :
            knowledge[k].cells # {} =>
                /\ knowledge[k].count # 0
                /\ knowledge[k].count # Cardinality(knowledge[k].cells)

\* add_knowledge has returned after resolving an all-safe and an all-mine
\* sentence, with an undecided sentence left.
C14_Witness ==
    /\ pc = "idle"
    /\ safes \ moves_made # {}
    /\ mines # {}
    /\ \E k \in 1 .. Len(knowledge) :
          /\ 0 < knowledge[k].count
          /\ knowledge[k].count < Cardinality(knowledge[k].cells)

\* C15: subset resolution is applied to saturation: whenever add_knowledge
\* returns, for every two unequal non-empty sentences A, B of the knowledge with
\* A.cells \subseteq B.cells, the knowledge holds a sentence equal to
\* (B.cells - A.cells, B.count - A.count) or the cells of that sentence are all
\* determined; in particular when A and B have the same count, the cells of
\* B.cells - A.cells are in safes.
C15_Derived(A, B) == Sentence(B.cells \ A.cells, B.count - A.count)

C15_Pairs ==
    { p \in (1 .. Len(knowledge)) \X (1 .. Len(knowledge)) :
        /\ knowledge[p[1]] # knowledge[p[2]]
        /\ knowledge[p[1]].cells # {}
        /\ knowledge[p[2]].cells # {}
        /\ knowledge[p[1]].cells \subseteq knowledge[p[2]].cells }

C15_Saturated ==
    pc = "idle" =>
        \A p \in C15_Pairs :
            /\ \/ InKnowledge(C15_Derived(knowledge[p[1]], knowledge[p[2]]), knowledge)
               \/ C15_Derived(knowledge[p[1]], knowledge[p[2]]).cells \subseteq safes \cup mines
            /\ knowledge[p[1]].count = knowledge[p[2]].count
                  => C15_Derived(knowledge[p[1]], knowledge[p[2]]).cells \subseteq safes

\* add_knowledge has returned with a sentence, a sentence about more cells
\* and their non-empty difference all in the knowledge.
C15_Witness ==
    /\ pc = "idle"
    /\ \E p \in C15_Pairs :
          /\ C15_Derived(knowledge[p[1]], knowledge[p[2]]).cells # {}
          /\ InKnowledge(C15_Derived(knowledge[p[1]], knowledge[p[2]]), knowledge)

\* C16: on one sentence, mark_mine(x) and mark_safe(y) for distinct cells x, y
\* commute (either order gives the same cells and count), and mark_mine or
\* mark_safe of a cell that is not in `cells` changes neither cells nor count.
C16_Commute ==
    \A x \in SentCells : \A y \in SentCells \ {x} :
        SentenceMarkSafe(SentenceMarkMine(sent, x), y)
            = SentenceMarkMine(SentenceMarkSafe(sent, y), x)

C16_NoOp ==
    \A cell \in SentCells \ sent.cells :
        /\ SentenceMarkMine(sent, cell) = sent
        /\ SentenceMarkSafe(sent, cell) = sent

C16_MarkAlgebra == C16_Commute /\ C16_NoOp

\* A sentence that has lost a mine cell and still holds a cell and lacks one.
C16_Witness ==
    /\ sent.count = -2
    /\ sent.cells # {}
    /\ sent.cells # SentCells

\* C17: the agent's mark_mine is idempotent: from any agent state, calling
\* mark_mine(c) twice in a row gives the same mines, safes and sentences (cells
\* and count of each) as calling it once.
C17_Cells ==
    BoardCells(height, width) \cup UNION { knowledge[k].cells : k \in 1 .. Len(knowledge) }

C17_MarkMineIdempotent ==
    \A c \in C17_Cells :
        mark_mine(mark_mine(Agent(mines, safes, knowledge, TRUE, FALSE), c), c)
            = mark_mine(Agent(mines, safes, knowledge, TRUE, FALSE), c)

\* mark_mine has run (a mine is known) and a sentence with a positive count
\* still holds a cell that a further mark_mine would take out.
C17_Witness ==
    /\ mines # {}
    /\ \E k \in 1 .. Len(knowledge) :
          /\ knowledge[k].cells # {}
          /\ knowledge[k].count > 0

\* C18: no assertion inside add_knowledge fails on in-contract input, for
\* every board height and width (boards with more than 8 rows included): the
\* bound assertions, the non-empty known_mines / known_safes assertions and the
\* assertion that a newly derived sentence is non-empty all hold.
C18_NoAssertionFails == ~broken => pc # "error"

====
